---------------------------- MODULE Spec2Model ----------------------------
(***************************************************************************)
(* A model of pmf (Python Modelling Framework): MObject attribute          *)
(* interception and containment (src/pmf/core.py), the notifying MList and *)
(* MDict containers, and the Direct / AllContent notification adapters     *)
(* (src/pmf/adapters.py).                                                  *)
(*                                                                         *)
(* Values are encoded as integers so that any two values can be compared:  *)
(*   0          None                                                       *)
(*   -1         a non-iterable scalar (an int)                             *)
(*   -2         an iterable scalar (a str: iterating it yields characters) *)
(*   1..NumNodes        instances of one model class "Node"                *)
(*   10*n+1, 10*n+2     the MList bound to Node n's "items" / "refs"       *)
(*   10*n+3             the MDict stored under Node n's "tags"             *)
(* The model class declares mContainment = {"child", "items", "tags"};     *)
(* "shipTo" and "refs" are ordinary attributes.                            *)
(***************************************************************************)
EXTENDS Integers, Sequences, FiniteSets, TLC

VARIABLES attrs,       \* attrs[n][k]: public attribute k of Node n (None when unset)
          elems,       \* elems[l]: the elements of MList l
          entries,     \* entries[m][key]: the value MDict m holds under key, or Absent
          mContainer,  \* _mContainer of every MObject
          mAdapters,   \* _mAdapters of every MObject, in registration order
          mDeliver,    \* _mDeliver of every MObject
          target,      \* the target of every adapter
          eventTypes,  \* the accepted event types of every adapter
          callbackDoes, \* what the callback of every adapter does when it is called
          log,         \* the callbacks run by the last operation, in order
          calls,       \* the adapters whose notify the last operation invoked, in order
          trace,       \* the callbacks entered and returned from and the adapter list
                       \* changes made by the last operation, in order
          last         \* the last operation and how it ended

vars == <<attrs, elems, entries, mContainer, mAdapters, mDeliver, target,
          eventTypes, callbackDoes, log, calls, trace, last>>

---------------------------------------------------------------------------
(* Bounds *)
NumNodes == 3
MaxLen == 2
NumKeys == 2

---------------------------------------------------------------------------
(* Values and objects *)
None == 0
IntScalar == 0 - 1
StrScalar == 0 - 2
Absent == 0 - 9

Nodes == 1 .. NumNodes
Keys == 1 .. NumKeys

TypeName == "Node"
\* dir(obj) lists names in sorted order: these are a Node's public data attributes
AttrNames == <<"child", "items", "refs", "shipTo", "tags">>
AttrSet == {AttrNames[i] : i \in 1 .. Len(AttrNames)}
mContainment == {"child", "items", "tags"}
ListAttrs == {"items", "refs"}
DictAttrs == {"tags"}
PlainAttrs == {"child", "shipTo"}

ListId(n, k) == 10 * n + (IF k = "items" THEN 1 ELSE 2)
DictId(n) == 10 * n + 3
Lists == {ListId(n, k) : n \in Nodes, k \in ListAttrs}
Dicts == {DictId(n) : n \in Nodes}
MObjects == Nodes \cup Lists \cup Dicts
Owner(c) == c \div 10
AttrOf(c) == IF c % 10 = 1 THEN "items" ELSE IF c % 10 = 2 THEN "refs" ELSE "tags"

\* isinstance(v, MObject)
IsMObject(v) == v \in MObjects

\* self.__class__.__name__ + "." + key
Feature(k) == <<TypeName, ".", k>>
NoFeature == <<>>

\* the _container / _containment / _feature an MList or MDict is constructed with
\* by MObject.__setattr__: an MList is bound to its owner, an MDict to nothing
boundContainer(c) == IF c \in Lists THEN Owner(c) ELSE None
boundContainment(c) == IF c \in Lists THEN AttrOf(c) \in mContainment ELSE FALSE
boundFeature(c) == IF c \in Lists THEN Feature(AttrOf(c)) ELSE NoFeature

EventTypes == {"ADD", "ADD_MANY", "MOVE", "MOVE_MANY", "REMOVE", "REMOVE_MANY",
               "SET", "SET_MANY"}

Adapters == {"direct", "all"}
\* the class of each adapter: NotificationAdapter or AllContentNotificationAdapter
Kind(ad) == IF ad = "all" THEN "AllContent" ELSE "Direct"

\* the nesting depth at which the interpreter gives up ("maximum recursion depth
\* exceeded").  A walk that ends never meets an object twice on one path, so it
\* nests at most NumNodes + 1 deep (the Nodes, then one list or map, whose only
\* references lead back to its owner), plus the re-entry through setTarget; a walk
\* that nests deeper is on a cycle, repeats itself and never ends.
RecursionLimit == 2 * NumNodes + 4

---------------------------------------------------------------------------
(* The heap that one operation transforms; ctx is the adapter whose callback is
   running (Outer outside every callback) *)
Outer == "outer"
Heap == [attrs |-> attrs, elems |-> elems, entries |-> entries,
         mContainer |-> mContainer, mAdapters |-> mAdapters,
         mDeliver |-> mDeliver, target |-> target, eventTypes |-> eventTypes,
         callbackDoes |-> callbackDoes,
         log |-> <<>>, calls |-> <<>>, trace |-> <<>>, ctx |-> Outer, err |-> "none"]

\* one step of an operation: a callback of adapter ad called or returned from, or
\* ad added to or removed from the adapter list of obj, while the callback of
\* adapter ctx was running
Event(kind, ad, obj, ctx) == [kind |-> kind, adapter |-> ad, obj |-> obj, ctx |-> ctx]

Raise(h, e) == IF h.err = "none" THEN [h EXCEPT !.err = e] ELSE h

\* a value carried by a Notification: v the object or scalar, many = TRUE for a raw
\* sequence, it = whether iter(value) succeeds, seq = what iterating it yields
\* (for a str or an MDict nothing that is an MObject)
NV(h, v) == [v |-> v, many |-> FALSE,
             it |-> (v = StrScalar \/ v \in Lists \/ v \in Dicts),
             seq |-> IF v \in Lists THEN h.elems[v] ELSE <<>>,
             pairs |-> <<>>]
NVMany(s) == [v |-> None, many |-> TRUE, it |-> TRUE, seq |-> s, pairs |-> <<>>]
NVPairs(p) == [v |-> None, many |-> TRUE, it |-> TRUE, seq |-> <<>>, pairs |-> p]
NVNone == [v |-> None, many |-> FALSE, it |-> FALSE, seq |-> <<>>, pairs |-> <<>>]
\* value != None
NotNone(nv) == nv.many \/ nv.v # None

Notification(notifier, ev, nw, old, pos, feat) ==
  [notifier |-> notifier, eventType |-> ev, newValue |-> nw, oldValue |-> old,
   position |-> pos, feature |-> feat]

SeqRemove(s, i) == [j \in 1 .. Len(s) - 1 |-> IF j < i THEN s[j] ELSE s[j + 1]]
IndexOf(s, x) == IF \E i \in 1 .. Len(s) : s[i] = x
                 THEN CHOOSE i \in 1 .. Len(s) : s[i] = x /\ \A j \in 1 .. i - 1 : s[j] # x
                 ELSE 0
InSeq(s, x) == \E i \in 1 .. Len(s) : s[i] = x

\* dir(obj) in order, as the values getattr returns for the names that can hold an
\* MObject; every other name (methods, _mAdapters, ...) yields a non-MObject
dirPublic(h, obj) ==
  IF obj \in Nodes THEN [i \in 1 .. Len(AttrNames) |-> h.attrs[obj][AttrNames[i]]]
  ELSE <<>>
dirAll(h, obj) ==
  IF obj \in Nodes THEN <<h.mContainer[obj]>> \o dirPublic(h, obj)
  ELSE <<boundContainer(obj), h.mContainer[obj]>>

---------------------------------------------------------------------------
(* Adapters: src/pmf/adapters.py, and the adapter registry of MObject *)

RECURSIVE recursiveAddAdapter(_, _, _, _)
RECURSIVE recursiveRemoveAdapter(_, _, _, _)
RECURSIVE addEach(_, _, _, _, _)
RECURSIVE removeEach(_, _, _, _, _)
RECURSIVE setTarget(_, _, _, _)
RECURSIVE mAddAdapter(_, _, _, _)
RECURSIVE mRemoveAdapter(_, _, _, _)
RECURSIVE callback(_, _, _)
RECURSIVE Direct_notify(_, _, _)
RECURSIVE AllContent_notify(_, _, _)
RECURSIVE notify(_, _, _)
RECURSIVE dispatch(_, _, _, _)
RECURSIVE mNotify(_, _, _)
RECURSIVE setattr(_, _, _, _)

\* NotificationAdapter.setTarget / AllContentNotificationAdapter.setTarget (which
\* calls back into the registry of the objects it walks)
setTarget(h, ad, t, d) ==
  IF h.err # "none" THEN h
  ELSE IF Kind(ad) = "Direct" THEN [h EXCEPT !.target[ad] = t]
  ELSE LET h1 == IF h.target[ad] # None
                 THEN recursiveRemoveAdapter(h, ad, h.target[ad], d + 1)
                 ELSE h
           h2 == IF h1.err # "none" THEN h1 ELSE [h1 EXCEPT !.target[ad] = t]
       IN  recursiveAddAdapter(h2, ad, t, d + 1)

\* an mAddAdapter that does not look for the adapter in the list first
mAddAdapter_Unguarded(h, obj, ad, d) ==
  IF h.err # "none" THEN h
  ELSE LET h1 == [h EXCEPT !.mAdapters[obj] = Append(@, ad),
                           !.trace = Append(@, Event("add", ad, obj, h.ctx))]
       IN  IF h1.target[ad] = None THEN setTarget(h1, ad, obj, d) ELSE h1

\* MObject.mAddAdapter
mAddAdapter(h, obj, ad, d) ==
  IF h.err # "none" \/ InSeq(h.mAdapters[obj], ad) THEN h
  ELSE LET h1 == [h EXCEPT !.mAdapters[obj] = Append(@, ad),
                           !.trace = Append(@, Event("add", ad, obj, h.ctx))]
       IN  IF h1.target[ad] = None THEN setTarget(h1, ad, obj, d) ELSE h1

\* MObject.mRemoveAdapter
mRemoveAdapter(h, obj, ad, d) ==
  IF h.err # "none" \/ ~InSeq(h.mAdapters[obj], ad) THEN h
  ELSE LET h1 == [h EXCEPT !.mAdapters[obj] = SeqRemove(@, IndexOf(@, ad)),
                           !.trace = Append(@, Event("remove", ad, obj, h.ctx))]
       IN  IF h1.target[ad] = obj THEN setTarget(h1, ad, None, d) ELSE h1

\* AllContentNotificationAdapter.__recursiveAddAdapter: the object, then every
\* public attribute of it (a list's elements are not attributes)
recursiveAddAdapter(h, ad, obj, d) ==
  IF h.err # "none" THEN h
  ELSE IF d > RecursionLimit THEN Raise(h, "RuntimeError")
  ELSE IF ~IsMObject(obj) THEN h
  ELSE LET h1 == mAddAdapter(h, obj, ad, d)
       IN  addEach(h1, ad, dirPublic(h1, obj), 1, d)

\* AllContentNotificationAdapter.__recursiveRemoveAdapter: the object, then every
\* attribute of it, the private ones (_mContainer, _container) included
recursiveRemoveAdapter(h, ad, obj, d) ==
  IF h.err # "none" THEN h
  ELSE IF d > RecursionLimit THEN Raise(h, "RuntimeError")
  ELSE IF ~IsMObject(obj) THEN h
  ELSE LET h1 == mRemoveAdapter(h, obj, ad, d)
       IN  removeEach(h1, ad, dirAll(h1, obj), 1, d)

\* for nv in values: self.__recursiveAddAdapter(nv)
addEach(h, ad, s, i, d) ==
  IF h.err # "none" \/ i > Len(s) THEN h
  ELSE addEach(recursiveAddAdapter(h, ad, s[i], d + 1), ad, s, i + 1, d)

\* for nv in values: self.__recursiveRemoveAdapter(nv)
removeEach(h, ad, s, i, d) ==
  IF h.err # "none" \/ i > Len(s) THEN h
  ELSE removeEach(recursiveRemoveAdapter(h, ad, s[i], d + 1), ad, s, i + 1, d)

\* what a callback supplied by the application may do besides recording the
\* notification: nothing, raise, unregister its own adapter from the notifier, or
\* register the other adapter on the notifier
CallbackChoices == {"record", "raise", "detach", "attach"}
Other(ad) == IF ad = "direct" THEN "all" ELSE "direct"
\* or, for a callback that changes the model while it runs: on a notification
\* about "child", store the new value under the notifier's "shipTo" as well
NestingChoices == {"record", "raise", "mutate"}

\* what the callback of ad does with notification n once it has recorded it
callbackActs(h, ad, n) ==
  IF h.callbackDoes[ad] = "raise" THEN Raise(h, "CallbackError")
  ELSE IF h.callbackDoes[ad] = "detach" THEN mRemoveAdapter(h, n.notifier, ad, 1)
  ELSE IF h.callbackDoes[ad] = "attach" THEN mAddAdapter(h, n.notifier, Other(ad), 1)
  ELSE IF h.callbackDoes[ad] = "mutate" /\ n.feature = Feature("child")
       THEN setattr([h EXCEPT !.ctx = ad], n.notifier, "shipTo", n.newValue.v)
       ELSE h

\* the callback returns to the notify that called it, unless it raised
callbackReturns(h, ad, n, ctx) ==
  IF h.err # "none" THEN h
  ELSE [h EXCEPT !.ctx = ctx, !.trace = Append(@, Event("return", ad, n.notifier, ctx))]

\* self.callback(notification): the callback records what it was given, then acts
callback(h, ad, n) ==
  IF h.err # "none" THEN h
  ELSE callbackReturns(
         callbackActs([h EXCEPT !.log = Append(@, [adapter |-> ad, n |-> n]),
                                !.trace = Append(@, Event("call", ad, n.notifier, h.ctx))],
                      ad, n),
         ad, n, h.ctx)

\* NotificationAdapter.notify
Direct_notify(h, ad, n) ==
  IF n.eventType \notin h.eventTypes[ad] THEN h ELSE callback(h, ad, n)

\* an AllContent notify that subscribes to the new value before it forwards the
\* notification to the callback
AllContent_notify_SubscribeFirst(h, ad, n) ==
  LET h1 == IF NotNone(n.newValue)
            THEN IF n.newValue.it
                 THEN addEach(h, ad, n.newValue.seq, 1, 1)
                 ELSE recursiveAddAdapter(h, ad, n.newValue.v, 1)
            ELSE h
      h2 == callback(h1, ad, n)
  IN  IF NotNone(n.oldValue)
      THEN IF n.oldValue.it
           THEN removeEach(h2, ad, n.oldValue.seq, 1, 1)
           ELSE recursiveRemoveAdapter(h2, ad, n.newValue.v, 1)
      ELSE h2

\* AllContentNotificationAdapter.notify
AllContent_notify(h, ad, n) ==
  LET h1 == callback(h, ad, n)
      h2 == IF NotNone(n.newValue)
            THEN IF n.newValue.it
                 THEN addEach(h1, ad, n.newValue.seq, 1, 1)
                 ELSE recursiveAddAdapter(h1, ad, n.newValue.v, 1)
            ELSE h1
  IN  IF NotNone(n.oldValue)
      THEN IF n.oldValue.it
           THEN removeEach(h2, ad, n.oldValue.seq, 1, 1)
           ELSE recursiveRemoveAdapter(h2, ad, n.newValue.v, 1)
      ELSE h2

\* adapter.notify(notification), dispatched on the adapter's class
notify(h, ad, n) ==
  IF h.err # "none" THEN h
  ELSE LET h0 == [h EXCEPT !.calls = Append(@, [adapter |-> ad, eventType |-> n.eventType])]
       IN  IF Kind(ad) = "Direct" THEN Direct_notify(h0, ad, n)
           ELSE AllContent_notify(h0, ad, n)

\* MObject.mNotificationRequired
mNotificationRequired(h, obj) == Len(h.mAdapters[obj]) > 0 /\ h.mDeliver[obj]

\* for adapter in self._mAdapters: adapter.notify(notification)
\* (the loop reads the list itself, by index, while the adapters run)
dispatch(h, obj, n, i) ==
  IF h.err # "none" \/ i > Len(h.mAdapters[obj]) THEN h
  ELSE dispatch(notify(h, h.mAdapters[obj][i], n), obj, n, i + 1)

\* MObject.mNotify
mNotify(h, obj, n) ==
  IF h.err # "none" THEN h
  ELSE IF mNotificationRequired(h, obj) THEN dispatch(h, obj, n, 1) ELSE h

---------------------------------------------------------------------------
(* MObject.__setattr__ on a public attribute: src/pmf/core.py lines 78-110 *)

\* a __setattr__ that forgets the value it replaces
clearOld_Forgotten(h, old, k) == h

\* oldValue._mContainer = None, for an old value that is an MObject under a
\* containment attribute
clearOld(h, old, k) ==
  IF IsMObject(old) /\ k \in mContainment THEN [h EXCEPT !.mContainer[old] = None] ELSE h

\* value._mContainer = self, for a stored value that is an MObject under a
\* containment attribute
setNew(h, o, k, v) ==
  IF IsMObject(v) /\ k \in mContainment THEN [h EXCEPT !.mContainer[v] = o] ELSE h

\* MObject.__init__ of a freshly constructed MList / MDict
freshObject(h, c) ==
  [h EXCEPT !.mContainer[c] = None, !.mAdapters[c] = <<>>, !.mDeliver[c] = TRUE]

\* a __setattr__ that puts the object back as it was when a callback raises
setattr_RolledBack(h, o, k, v) ==
  LET old == h.attrs[o][k]
      h1 == clearOld(h, old, k)
      h2 == [h1 EXCEPT !.attrs[o][k] = v]
      h3 == setNew(h2, o, k, v)
      h4 == mNotify(h3, o, Notification(o, "SET", NV(h3, v), NV(h, old), <<>>, Feature(k)))
  IN  IF h4.err = "CallbackError"
      THEN [h4 EXCEPT !.attrs = h.attrs, !.mContainer = h.mContainer]
      ELSE h4

\* obj.key = value, for a value that is neither a list nor a dict
setattr(h, o, k, v) ==
  LET old == h.attrs[o][k]
      h1 == clearOld(h, old, k)
      h2 == [h1 EXCEPT !.attrs[o][k] = v]
      h3 == setNew(h2, o, k, v)
  IN  mNotify(h3, o, Notification(o, "SET", NV(h3, v), NV(h, old), <<>>, Feature(k)))

\* obj.key = [...]: the raw list is wrapped in a new MList bound to obj
setattrList(h, o, k, raw) ==
  LET old == h.attrs[o][k]
      l == ListId(o, k)
      h1 == clearOld(h, old, k)
      h2 == [freshObject(h1, l) EXCEPT !.elems[l] = raw]
      h3 == [h2 EXCEPT !.attrs[o][k] = l]
      h4 == setNew(h3, o, k, l)
  IN  mNotify(h4, o, Notification(o, "SET", NV(h4, l), NV(h, old), <<>>, Feature(k)))

\* obj.key = {...}: the raw dict is wrapped in a new MDict bound to nothing
setattrDict(h, o, k, raw) ==
  LET old == h.attrs[o][k]
      m == DictId(o)
      h1 == clearOld(h, old, k)
      h2 == [freshObject(h1, m) EXCEPT !.entries[m] = raw]
      h3 == [h2 EXCEPT !.attrs[o][k] = m]
      h4 == setNew(h3, o, k, m)
  IN  mNotify(h4, o, Notification(o, "SET", NV(h4, m), NV(h, old), <<>>, Feature(k)))

---------------------------------------------------------------------------
(* MList: src/pmf/core.py lines 151-315.  Indices are Python's (from 0). *)

\* if isinstance(value, MObject) and self._container != None:
\*     value._mContainer = self._container
adopt(h, c, v) ==
  IF IsMObject(v) /\ boundContainer(c) # None
  THEN [h EXCEPT !.mContainer[v] = boundContainer(c)] ELSE h

\* if isinstance(oldValue, MObject) and self._container != None:
\*     oldValue._mContainer = None
disown(h, c, v) ==
  IF IsMObject(v) /\ boundContainer(c) # None
  THEN [h EXCEPT !.mContainer[v] = None] ELSE h

RECURSIVE adoptAll(_, _, _, _)
adoptAll(h, c, s, i) ==
  IF i > Len(s) THEN h ELSE adoptAll(adopt(h, c, s[i]), c, s, i + 1)

MList_append(h, l, v) ==
  LET h1 == [h EXCEPT !.elems[l] = Append(@, v)]
      h2 == adopt(h1, l, v)
  IN  mNotify(h2, l, Notification(l, "ADD", NV(h2, v), NVNone,
                                  <<Len(h2.elems[l]) - 1>>, boundFeature(l)))

MList_extend(h, l, vs) ==
  LET h1 == [h EXCEPT !.elems[l] = @ \o vs]
      h2 == adoptAll(h1, l, vs, 1)
      n == Len(h2.elems[l])
  IN  mNotify(h2, l, Notification(l, "ADD_MANY", NVMany(vs), NVNone,
                                  <<n - Len(vs), n - 1>>, boundFeature(l)))

\* insert(key, value) stores the value with list.append
MList_insert(h, l, key, v) ==
  LET h1 == [h EXCEPT !.elems[l] = Append(@, v)]
      h2 == adopt(h1, l, v)
  IN  mNotify(h2, l, Notification(l, "ADD", NV(h2, v), NVNone, <<key>>, boundFeature(l)))

MList_pop(h, l, key) ==
  IF key >= Len(h.elems[l]) THEN Raise(h, "IndexError")
  ELSE LET old == h.elems[l][key + 1]
           h1 == disown(h, l, old)
           h2 == [h1 EXCEPT !.elems[l] = SeqRemove(@, key + 1)]
       IN  mNotify(h2, l, Notification(l, "REMOVE", NVNone, NV(h, old), <<key>>,
                                       boundFeature(l)))

\* a remove whose "except" catches the failed lookup and carries on to
\* list.remove, which then raises
MList_remove_Caught(h, l, v) ==
  IF ~InSeq(h.elems[l], v) THEN Raise(disown(h, l, v), "ValueError")
  ELSE LET position == IndexOf(h.elems[l], v) - 1
           h1 == disown(h, l, v)
           h2 == [h1 EXCEPT !.elems[l] = SeqRemove(@, position + 1)]
       IN  mNotify(h2, l, Notification(l, "REMOVE", NVNone, NV(h, v), <<position>>,
                                       boundFeature(l)))

\* self.index(value) raises ValueError, which "except IndexError" does not catch
MList_remove(h, l, v) ==
  IF ~InSeq(h.elems[l], v) THEN Raise(h, "ValueError")
  ELSE LET position == IndexOf(h.elems[l], v) - 1
           h1 == disown(h, l, v)
           h2 == [h1 EXCEPT !.elems[l] = SeqRemove(@, position + 1)]
       IN  mNotify(h2, l, Notification(l, "REMOVE", NVNone, NV(h, v), <<position>>,
                                       boundFeature(l)))

\* lst.reverse()
Reversed(s) == [i \in 1 .. Len(s) |-> s[Len(s) + 1 - i]]
MList_reverse(h, l) ==
  LET h1 == [h EXCEPT !.elems[l] = Reversed(@)]
  IN  mNotify(h1, l, Notification(l, "MOVE_MANY", NVNone, NVNone,
                                  <<0, Len(h1.elems[l]) - 1>>, boundFeature(l)))

\* the order list.sort() puts values in: numbers before strings, model objects
\* among themselves by identity (taken here as their numbering), after both
SortKey(v) == IF v = IntScalar THEN 0 ELSE IF v = StrScalar THEN 1 ELSE v + 1
RECURSIVE InsertSorted(_, _)
InsertSorted(s, v) ==
  IF s = <<>> THEN <<v>>
  ELSE IF SortKey(v) < SortKey(Head(s)) THEN <<v>> \o s
  ELSE <<Head(s)>> \o InsertSorted(Tail(s), v)
RECURSIVE Sorted(_)
Sorted(s) == IF s = <<>> THEN <<>> ELSE InsertSorted(Sorted(Tail(s)), Head(s))

\* lst.sort()
MList_sort(h, l) ==
  LET h1 == [h EXCEPT !.elems[l] = Sorted(@)]
  IN  mNotify(h1, l, Notification(l, "MOVE_MANY", NVNone, NVNone,
                                  <<0, Len(h1.elems[l]) - 1>>, boundFeature(l)))

\* lst[i:j] = values, 0 <= i <= j <= len
MList_setslice(h, l, i, j, vs) ==
  LET old == SubSeq(h.elems[l], i + 1, j)
      h1 == [h EXCEPT !.elems[l] = SubSeq(@, 1, i) \o vs \o SubSeq(@, j + 1, Len(@))]
      h2 == adoptAll(h1, l, vs, 1)
  IN  mNotify(h2, l, Notification(l, "SET_MANY", NVMany(vs), NVMany(old), <<i, j>>,
                                  boundFeature(l)))

\* lst[key] = value
MList_setitem(h, l, key, v) ==
  IF key >= Len(h.elems[l]) THEN Raise(h, "IndexError")
  ELSE LET old == h.elems[l][key + 1]
           h1 == [h EXCEPT !.elems[l][key + 1] = v]
           h2 == adopt(h1, l, v)
       IN  mNotify(h2, l, Notification(l, "SET", NV(h2, v), NV(h, old), <<key>>,
                                       boundFeature(l)))

\* del lst[i:j]: __delslice__ is declared with a third parameter the interpreter
\* never passes
MList_delslice(h, l, i, j) == Raise(h, "TypeError")

\* del lst[key]
MList_delitem(h, l, key) ==
  IF key >= Len(h.elems[l]) THEN Raise(h, "IndexError")
  ELSE LET old == h.elems[l][key + 1]
           h1 == disown(h, l, old)
           h2 == [h1 EXCEPT !.elems[l] = SeqRemove(@, key + 1)]
       IN  mNotify(h2, l, Notification(l, "REMOVE", NVNone, NV(h, old), <<key>>,
                                       boundFeature(l)))

---------------------------------------------------------------------------
(* MDict: src/pmf/core.py lines 319-423 *)

\* dict.items() / dict.keys() of a raw or stored map, in key order
RECURSIVE itemsFrom(_, _)
itemsFrom(e, k) ==
  IF k > NumKeys THEN <<>>
  ELSE (IF e[k] = Absent THEN <<>> ELSE <<<<k, e[k]>>>>) \o itemsFrom(e, k + 1)
items(e) == itemsFrom(e, 1)
keys(e) == [i \in 1 .. Len(items(e)) |-> items(e)[i][1]]
values(e) == [i \in 1 .. Len(items(e)) |-> items(e)[i][2]]
\* self.get(key, None)
get(e, k) == IF e[k] = Absent THEN None ELSE e[k]
EmptyDict == [k \in Keys |-> Absent]

\* d[key] = value
MDict_setitem(h, m, key, v) ==
  LET old == get(h.entries[m], key)
      h1 == [h EXCEPT !.entries[m][key] = v]
      h2 == adopt(h1, m, v)
  IN  mNotify(h2, m, Notification(m, "SET", NV(h2, v), NV(h, old), <<key>>, NoFeature))

MDict_setdefault(h, m, key, v) ==
  LET old == get(h.entries[m], key)
      \* dict.setdefault returns the value already stored, None included
      nw == IF h.entries[m][key] = Absent THEN v ELSE h.entries[m][key]
      h1 == [h EXCEPT !.entries[m][key] = nw]
      h2 == adopt(h1, m, nw)
  IN  mNotify(h2, m, Notification(m, "SET", NV(h2, nw), NV(h, old), <<key>>, NoFeature))

\* oldValues[k, self[k]] only looks a key up in oldValues, which stays empty
updateOldValues(h, m, new) == EmptyDict

\* d.update(new)
MDict_update(h, m, new) ==
  LET oldValues == updateOldValues(h, m, new)
      h1 == [h EXCEPT !.entries[m] =
               [k \in Keys |-> IF new[k] = Absent THEN @[k] ELSE new[k]]]
      h2 == adoptAll(h1, m, values(new), 1)
  IN  mNotify(h2, m, Notification(m, "SET_MANY", NVPairs(items(new)),
                                  NVPairs(items(oldValues)), keys(new), NoFeature))

\* d.pop(key): dict.pop(self, key, None) never fails
MDict_pop(h, m, key) ==
  LET old == get(h.entries[m], key)
      h1 == [h EXCEPT !.entries[m][key] = Absent]
      h2 == disown(h1, m, old)
  IN  mNotify(h2, m, Notification(m, "REMOVE", NVNone, NV(h, old), <<key>>, NoFeature))

\* d.popitem() evicting key (the interpreter's choice); the (key, value) pair it
\* returns is never an MObject
MDict_popitem(h, m, key) ==
  IF h.entries[m][key] = Absent THEN Raise(h, "KeyError")
  ELSE LET old == h.entries[m][key]
           h1 == [h EXCEPT !.entries[m][key] = Absent]
       IN  mNotify(h1, m, Notification(m, "REMOVE", NVNone, NV(h, old), <<key>>,
                                       NoFeature))

\* del d[key]
MDict_delitem(h, m, key) ==
  IF h.entries[m][key] = Absent THEN Raise(h, "KeyError")
  ELSE LET old == h.entries[m][key]
           h1 == [h EXCEPT !.entries[m][key] = Absent]
           h2 == disown(h1, m, old)
       IN  mNotify(h2, m, Notification(m, "REMOVE", NVNone, NV(h, old), <<key>>,
                                       NoFeature))

\* d.clear(): oldValues = self.items() is a list, and oldValues.values() raises
\* AttributeError after dict.clear(self)
MDict_clear(h, m) ==
  LET h1 == [h EXCEPT !.entries[m] = EmptyDict]
  IN  Raise(h1, "AttributeError")

---------------------------------------------------------------------------
(* The state machine: one step per call made by the application *)

AcceptChoices == {{"SET"}, EventTypes}

\* what the application called: the receiver, the attribute name, the value or
\* values passed, the index or key, and the value the call found stored there
Op(op, obj, key, val, seq, idx, old) ==
  [op |-> op, obj |-> obj, key |-> key, val |-> val, seq |-> seq, idx |-> idx,
   old |-> old]

\* the heap the call leaves behind (an exception keeps what was done before it)
Commit(h, op) ==
  /\ attrs' = h.attrs
  /\ elems' = h.elems
  /\ entries' = h.entries
  /\ mContainer' = h.mContainer
  /\ mAdapters' = h.mAdapters
  /\ mDeliver' = h.mDeliver
  /\ target' = h.target
  /\ eventTypes' = h.eventTypes
  /\ callbackDoes' = h.callbackDoes
  /\ log' = h.log
  /\ calls' = h.calls
  /\ trace' = h.trace
  /\ last' = [op |-> op.op, obj |-> op.obj, key |-> op.key, val |-> op.val,
              seq |-> op.seq, idx |-> op.idx, old |-> op.old, err |-> h.err]

\* the MObject c is a Node, or the MList / MDict its owner currently holds
Exists(c) == IF c \in Nodes THEN TRUE ELSE attrs[Owner(c)][AttrOf(c)] = c
\* lst[i], or None where the index is out of range
ElemAt(l, i) == IF i < Len(elems[l]) THEN elems[l][i + 1] ELSE None

Init ==
  /\ attrs = [n \in Nodes |-> [k \in AttrSet |-> None]]
  /\ elems = [l \in Lists |-> <<>>]
  /\ entries = [m \in Dicts |-> EmptyDict]
  /\ mContainer = [o \in MObjects |-> None]
  /\ mAdapters = [o \in MObjects |-> <<>>]
  /\ mDeliver = [o \in MObjects |-> TRUE]
  /\ target = [a \in Adapters |-> None]
  /\ eventTypes = [a \in Adapters |-> EventTypes]
  /\ callbackDoes = [a \in Adapters |-> "record"]
  /\ log = <<>>
  /\ calls = <<>>
  /\ trace = <<>>
  /\ last = [op |-> "init", obj |-> None, key |-> "", val |-> None, seq |-> <<>>,
             idx |-> 0, old |-> None, err |-> "none"]

SetAttr(o, k, v) == Commit(setattr(Heap, o, k, v), Op("setattr", o, k, v, <<>>, 0, attrs[o][k]))
SetAttrList(o, k, raw) ==
  Commit(setattrList(Heap, o, k, raw), Op("setattrList", o, k, None, raw, 0, attrs[o][k]))
SetAttrDict(o, k, raw) ==
  Commit(setattrDict(Heap, o, k, raw), Op("setattrDict", o, k, None, values(raw), 0, attrs[o][k]))

ListAppend(l, v) ==
  /\ Exists(l) /\ Len(elems[l]) < MaxLen
  /\ Commit(MList_append(Heap, l, v), Op("append", l, "", v, <<>>, 0, None))
ListExtend(l, vs) ==
  /\ Exists(l) /\ Len(elems[l]) + Len(vs) <= MaxLen
  /\ Commit(MList_extend(Heap, l, vs), Op("extend", l, "", None, vs, 0, None))
ListInsert(l, i, v) ==
  /\ Exists(l) /\ Len(elems[l]) < MaxLen /\ i <= Len(elems[l])
  /\ Commit(MList_insert(Heap, l, i, v), Op("insert", l, "", v, <<>>, i, None))
ListPop(l, i) ==
  /\ Exists(l)
  /\ Commit(MList_pop(Heap, l, i), Op("pop", l, "", None, <<>>, i, ElemAt(l, i)))
ListRemove(l, v) ==
  /\ Exists(l)
  /\ Commit(MList_remove(Heap, l, v), Op("remove", l, "", v, <<>>, 0, None))
ListReverse(l) ==
  /\ Exists(l)
  /\ Commit(MList_reverse(Heap, l), Op("reverse", l, "", None, <<>>, 0, None))
ListSort(l) ==
  /\ Exists(l)
  /\ Commit(MList_sort(Heap, l), Op("sort", l, "", None, <<>>, 0, None))
ListSetSlice(l, i, j, vs) ==
  /\ Exists(l) /\ i <= j /\ j <= Len(elems[l])
  /\ Len(elems[l]) - (j - i) + Len(vs) <= MaxLen
  /\ Commit(MList_setslice(Heap, l, i, j, vs), Op("setslice", l, "", j, vs, i, None))
ListSetItem(l, i, v) ==
  /\ Exists(l)
  /\ Commit(MList_setitem(Heap, l, i, v), Op("setitem", l, "", v, <<>>, i, ElemAt(l, i)))
ListDelSlice(l, i, j) ==
  /\ Exists(l) /\ i <= j /\ j <= Len(elems[l])
  /\ Commit(MList_delslice(Heap, l, i, j), Op("delslice", l, "", j, <<>>, i, None))
ListDelItem(l, i) ==
  /\ Exists(l)
  /\ Commit(MList_delitem(Heap, l, i), Op("delitem", l, "", None, <<>>, i, ElemAt(l, i)))

DictSet(m, k, v) ==
  /\ Exists(m)
  /\ Commit(MDict_setitem(Heap, m, k, v), Op("dictSet", m, "", v, <<>>, k, get(entries[m], k)))
DictSetDefault(m, k, v) ==
  /\ Exists(m)
  /\ Commit(MDict_setdefault(Heap, m, k, v), Op("dictSetDefault", m, "", v, <<>>, k, get(entries[m], k)))
DictUpdate(m, new) ==
  /\ Exists(m)
  /\ Commit(MDict_update(Heap, m, new), Op("dictUpdate", m, "", None, values(new), 0, None))
DictPop(m, k) ==
  /\ Exists(m)
  /\ Commit(MDict_pop(Heap, m, k), Op("dictPop", m, "", None, <<>>, k, get(entries[m], k)))
DictPopItem(m, k) ==
  /\ Exists(m)
  /\ Commit(MDict_popitem(Heap, m, k), Op("dictPopItem", m, "", None, <<>>, k, get(entries[m], k)))
DictDelete(m, k) ==
  /\ Exists(m)
  /\ Commit(MDict_delitem(Heap, m, k), Op("dictDelete", m, "", None, <<>>, k, get(entries[m], k)))
DictClear(m) ==
  /\ Exists(m)
  /\ Commit(MDict_clear(Heap, m), Op("dictClear", m, "", None, values(entries[m]), 0, None))

\* obj.mAddAdapter(adapter), obj.mRemoveAdapter(adapter), adapter.target = t
\* (recorded with them: obj itself where the adapter was registered on obj before
\* the call, else None)
Registered(o, ad) == IF InSeq(mAdapters[o], ad) THEN o ELSE None
AddAdapter(o, ad) ==
  Commit(mAddAdapter(Heap, o, ad, 0),
         Op("mAddAdapter", o, ad, None, <<>>, 0, Registered(o, ad)))
RemoveAdapter(o, ad) ==
  Commit(mRemoveAdapter(Heap, o, ad, 0),
         Op("mRemoveAdapter", o, ad, None, <<>>, 0, Registered(o, ad)))
SetTarget(ad, t) ==
  Commit(setTarget(Heap, ad, t, 0), Op("setTarget", t, ad, None, <<>>, 0, target[ad]))
\* obj._mDeliver = b: a private attribute, stored without notification
SetDeliver(o, b) ==
  Commit([Heap EXCEPT !.mDeliver[o] = b], Op("setDeliver", o, "", None, <<>>, 0, None))

---------------------------------------------------------------------------
(* Attribute sets on the containment attribute "child", one Node observed by a
   Direct adapter *)

ChildValues == {None, IntScalar} \cup Nodes

NextAttr ==
  \/ \E o \in Nodes, v \in ChildValues : SetAttr(o, "child", v)
  \/ AddAdapter(1, "direct")

Spec == Init /\ [][NextAttr]_vars

---------------------------------------------------------------------------
(* The collections of one Node: a containment list "items", an ordinary list
   "refs" and a map "tags", with the other Nodes as their elements *)

Holder == CHOOSE n \in Nodes : \A m \in Nodes : n <= m
Elements == Nodes \ {Holder}
ElemInputs == {IntScalar} \cup Elements
ListInputs == UNION {[1 .. n -> ElemInputs] : n \in 0 .. MaxLen}
DictInputs == [Keys -> ElemInputs \cup {Absent}]
HolderLists == {ListId(Holder, k) : k \in ListAttrs}
Indices == 0 .. MaxLen

\* every call the application can make on the MList l
ListOps(l) ==
  \/ \E v \in ElemInputs : ListAppend(l, v)
  \/ \E vs \in ListInputs : ListExtend(l, vs)
  \/ \E i \in Indices, v \in ElemInputs : ListInsert(l, i, v)
  \/ \E i \in Indices : ListPop(l, i)
  \/ \E v \in ElemInputs : ListRemove(l, v)
  \/ \E i \in Indices, j \in Indices, vs \in ListInputs : ListSetSlice(l, i, j, vs)
  \/ \E i \in Indices, v \in ElemInputs : ListSetItem(l, i, v)
  \/ \E i \in Indices, j \in Indices : ListDelSlice(l, i, j)
  \/ \E i \in Indices : ListDelItem(l, i)

\* the containment list and the ordinary list, side by side
NextList ==
  \/ \E k \in ListAttrs, raw \in ListInputs : SetAttrList(Holder, k, raw)
  \/ \E l \in HolderLists : ListOps(l)

SpecList == Init /\ [][NextList]_vars

\* the containment attributes "child" and "items" of one Node
NextItems ==
  \/ \E v \in Elements \cup {None} : SetAttr(Holder, "child", v)
  \/ \E raw \in ListInputs : SetAttrList(Holder, "items", raw)
  \/ ListOps(ListId(Holder, "items"))

SpecItems == Init /\ [][NextItems]_vars

NextDict ==
  \/ \E raw \in DictInputs : SetAttrDict(Holder, "tags", raw)
  \/ \E k \in Keys, v \in ElemInputs : DictSet(DictId(Holder), k, v)
  \/ \E k \in Keys, v \in ElemInputs : DictSetDefault(DictId(Holder), k, v)
  \/ \E new \in DictInputs : DictUpdate(DictId(Holder), new)
  \/ \E k \in Keys : DictPop(DictId(Holder), k)
  \/ \E k \in Keys : DictPopItem(DictId(Holder), k)
  \/ \E k \in Keys : DictDelete(DictId(Holder), k)
  \/ DictClear(DictId(Holder))

SpecDict == Init /\ [][NextDict]_vars

---------------------------------------------------------------------------
(* A tree observed by an AllContent adapter: Root is the adapter's target, Mid
   owns the containment list "items", and every Node has the containment
   attribute "child"; Root also has the ordinary attribute "shipTo". *)

Root == CHOOSE n \in Nodes : \A m \in Nodes : n <= m
Mid == Root + 1
Leaf == Root + 2
MidItems == ListId(Mid, "items")

NextAll ==
  \/ \E v \in {None, Mid, Leaf} : SetAttr(Root, "child", v)
  \/ \E v \in {None, Mid, Leaf} : SetAttr(Root, "shipTo", v)
  \/ \E v \in {None, IntScalar} : SetAttr(Leaf, "child", v)
  \/ \E raw \in {<<>>, <<Leaf>>} : SetAttrList(Mid, "items", raw)
  \/ \E v \in {IntScalar, Leaf} : ListAppend(MidItems, v)
  \/ \E i \in 0 .. 1 : ListPop(MidItems, i)
  \/ AddAdapter(Root, "all")

SpecAll == Init /\ [][NextAll]_vars

---------------------------------------------------------------------------
(* The scenario of src/example.py: Root holds Mid under the containment attribute
   "child", Mid holds the containment list "items", a Direct adapter and then an
   AllContent adapter are attached to Root; afterwards Leaf is appended to the
   list and its attributes are set. *)

\* the statements of the script run in order: the tree is built, the Direct and
\* then the AllContent adapter are attached, and from then on Leaf is appended
\* and set
Attached ==
  \/ last.op = "mAddAdapter" /\ last.key = "all"
  \/ last.op = "append"
  \/ last.op = "setattr" /\ last.obj = Leaf

NextScenario ==
  \/ last.op = "init" /\ SetAttr(Root, "child", Mid)
  \/ last.op = "setattr" /\ last.obj = Root /\ SetAttrList(Mid, "items", <<>>)
  \/ last.op = "setattrList" /\ AddAdapter(Root, "direct")
  \/ last.op = "mAddAdapter" /\ last.key = "direct" /\ AddAdapter(Root, "all")
  \/ Attached /\ ListAppend(MidItems, Leaf)
  \/ Attached /\ \E k \in PlainAttrs, v \in {None, IntScalar, StrScalar, Root} :
                   SetAttr(Leaf, k, v)

SpecScenario == Init /\ [][NextScenario]_vars

---------------------------------------------------------------------------
(* Adapters constructed with either accepted set, attached to a Node and to its
   containment list *)

RootItems == ListId(Root, "items")

InitFilter ==
  /\ attrs = [n \in Nodes |-> [k \in AttrSet |-> None]]
  /\ elems = [l \in Lists |-> <<>>]
  /\ entries = [m \in Dicts |-> EmptyDict]
  /\ mContainer = [o \in MObjects |-> None]
  /\ mAdapters = [o \in MObjects |-> <<>>]
  /\ mDeliver = [o \in MObjects |-> TRUE]
  /\ target = [a \in Adapters |-> None]
  /\ eventTypes \in [Adapters -> AcceptChoices]
  /\ callbackDoes = [a \in Adapters |-> "record"]
  /\ log = <<>>
  /\ calls = <<>>
  /\ trace = <<>>
  /\ last = [op |-> "init", obj |-> None, key |-> "", val |-> None, seq |-> <<>>,
             idx |-> 0, old |-> None, err |-> "none"]

NextFilter ==
  \/ \E ad \in Adapters : AddAdapter(Root, ad)
  \/ \E ad \in Adapters : Exists(RootItems) /\ AddAdapter(RootItems, ad)
  \/ \E v \in {None, IntScalar} : SetAttr(Root, "child", v)
  \/ SetAttrList(Root, "items", <<>>)
  \/ \E v \in {IntScalar, Mid} : ListAppend(RootItems, v)
  \/ ListPop(RootItems, 0)

SpecFilter == InitFilter /\ [][NextFilter]_vars

---------------------------------------------------------------------------
(* Delivery: a Node, its containment list and its map, each with or without a
   Direct adapter and with either delivery flag *)

HolderObjects == {Holder, ListId(Holder, "items"), DictId(Holder)}

NextDeliver ==
  \/ \E c \in HolderObjects : Exists(c) /\ AddAdapter(c, "direct")
  \/ \E c \in HolderObjects, b \in BOOLEAN : Exists(c) /\ SetDeliver(c, b)
  \/ \E v \in {None, IntScalar} : SetAttr(Holder, "child", v)
  \/ SetAttrList(Holder, "items", <<>>)
  \/ SetAttrDict(Holder, "tags", EmptyDict)
  \/ ListAppend(ListId(Holder, "items"), IntScalar)
  \/ ListPop(ListId(Holder, "items"), 0)
  \/ \E k \in Keys : DictSet(DictId(Holder), k, IntScalar)
  \/ \E k \in Keys : DictPop(DictId(Holder), k)
  \/ DictClear(DictId(Holder))

SpecDeliver == Init /\ [][NextDeliver]_vars

---------------------------------------------------------------------------
(* Callbacks that act on the notifier's adapter list, or raise, while a
   notification of Root is being dispatched *)

InitCallbacks ==
  /\ attrs = [n \in Nodes |-> [k \in AttrSet |-> None]]
  /\ elems = [l \in Lists |-> <<>>]
  /\ entries = [m \in Dicts |-> EmptyDict]
  /\ mContainer = [o \in MObjects |-> None]
  /\ mAdapters = [o \in MObjects |-> <<>>]
  /\ mDeliver = [o \in MObjects |-> TRUE]
  /\ target = [a \in Adapters |-> None]
  /\ eventTypes = [a \in Adapters |-> EventTypes]
  /\ callbackDoes \in [Adapters -> CallbackChoices]
  /\ log = <<>>
  /\ calls = <<>>
  /\ trace = <<>>
  /\ last = [op |-> "init", obj |-> None, key |-> "", val |-> None, seq |-> <<>>,
             idx |-> 0, old |-> None, err |-> "none"]

NextSnapshot ==
  \/ \E ad \in Adapters : AddAdapter(Root, ad)
  \/ \E ad \in Adapters : RemoveAdapter(Root, ad)
  \/ \E v \in {None, IntScalar} : SetAttr(Root, "shipTo", v)

SpecSnapshot == InitCallbacks /\ [][NextSnapshot]_vars

---------------------------------------------------------------------------
(* The adapter registry: both adapters registered on, removed from and
   retargeted to the Nodes of a small tree *)

NextAdapters ==
  \/ \E o \in {Root, Mid}, ad \in Adapters : AddAdapter(o, ad)
  \/ \E o \in {Root, Mid}, ad \in Adapters : RemoveAdapter(o, ad)
  \/ \E ad \in Adapters, t \in {None, Root, Mid} : SetTarget(ad, t)
  \/ \E v \in {None, Mid} : SetAttr(Root, "shipTo", v)

SpecAdapters == Init /\ [][NextAdapters]_vars

---------------------------------------------------------------------------
(* Every operation of the containment list of one Node, observed by a Direct
   adapter registered on the list *)

HolderItems == ListId(Holder, "items")

NextTable ==
  \/ \E raw \in ListInputs : SetAttrList(Holder, "items", raw)
  \/ Exists(HolderItems) /\ AddAdapter(HolderItems, "direct")
  \/ ListOps(HolderItems)
  \/ ListReverse(HolderItems)
  \/ ListSort(HolderItems)

SpecTable == Init /\ [][NextTable]_vars

---------------------------------------------------------------------------
(* The map of one Node, observed by a Direct adapter registered on the map *)

HolderTags == DictId(Holder)

NextMap ==
  \/ \E raw \in DictInputs : SetAttrDict(Holder, "tags", raw)
  \/ Exists(HolderTags) /\ AddAdapter(HolderTags, "direct")
  \/ \E k \in Keys, v \in ElemInputs : DictSet(HolderTags, k, v)
  \/ \E new \in DictInputs : DictUpdate(HolderTags, new)
  \/ \E k \in Keys : DictDelete(HolderTags, k)
  \/ DictClear(HolderTags)

SpecMap == Init /\ [][NextMap]_vars

---------------------------------------------------------------------------
(* Calls that fail: indices the list does not have, values it does not hold,
   keys the map does not hold *)

FailingInputs == {IntScalar, Mid}

NextFailing ==
  \/ SetAttrList(Holder, "items", <<>>)
  \/ SetAttrDict(Holder, "tags", EmptyDict)
  \/ \E c \in {HolderItems, HolderTags} : Exists(c) /\ AddAdapter(c, "direct")
  \/ \E v \in FailingInputs : ListAppend(HolderItems, v)
  \/ \E i \in Indices : ListPop(HolderItems, i)
  \/ \E i \in Indices, v \in FailingInputs : ListSetItem(HolderItems, i, v)
  \/ \E i \in Indices : ListDelItem(HolderItems, i)
  \/ \E v \in FailingInputs : ListRemove(HolderItems, v)
  \/ \E k \in Keys : DictSet(HolderTags, k, IntScalar)
  \/ \E k \in Keys : DictDelete(HolderTags, k)

SpecFailing == Init /\ [][NextFailing]_vars

---------------------------------------------------------------------------
(* Attribute sets on a Node whose adapters' callbacks may raise *)

NextRaise ==
  \/ \E ad \in Adapters : AddAdapter(Root, ad)
  \/ \E v \in {None, Mid, Leaf} : SetAttr(Root, "child", v)

SpecRaise == InitCallbacks /\ [][NextRaise]_vars

---------------------------------------------------------------------------
(* Detaching an AllContent adapter from the root of a tree whose Nodes hold
   lists *)

NextDetach ==
  \/ \E v \in {None, Mid} : SetAttr(Root, "child", v)
  \/ \E n \in {Root, Mid} : SetAttrList(n, "items", <<>>)
  \/ \E v \in {IntScalar, Leaf} : ListAppend(RootItems, v)
  \/ AddAdapter(Root, "all")
  \/ RemoveAdapter(Root, "all")
  \/ SetTarget("all", None)

SpecDetach == Init /\ [][NextDetach]_vars

---------------------------------------------------------------------------
(* Attribute sets on a Node whose adapters' callbacks may change the Node while
   the notification is being dispatched *)

InitNesting ==
  /\ attrs = [n \in Nodes |-> [k \in AttrSet |-> None]]
  /\ elems = [l \in Lists |-> <<>>]
  /\ entries = [m \in Dicts |-> EmptyDict]
  /\ mContainer = [o \in MObjects |-> None]
  /\ mAdapters = [o \in MObjects |-> <<>>]
  /\ mDeliver = [o \in MObjects |-> TRUE]
  /\ target = [a \in Adapters |-> None]
  /\ eventTypes = [a \in Adapters |-> EventTypes]
  /\ callbackDoes \in [Adapters -> NestingChoices]
  /\ log = <<>>
  /\ calls = <<>>
  /\ trace = <<>>
  /\ last = [op |-> "init", obj |-> None, key |-> "", val |-> None, seq |-> <<>>,
             idx |-> 0, old |-> None, err |-> "none"]

NextNesting ==
  \/ \E ad \in Adapters : AddAdapter(Root, ad)
  \/ \E v \in {None, Mid, Leaf} : SetAttr(Root, "child", v)

SpecNesting == InitNesting /\ [][NextNesting]_vars

---------------------------------------------------------------------------
(* C1: after the attribute set A.child = C on a containment attribute, C's
   container is A, and the Node B that the set replaced (B # C) has no container. *)
C1_ChildContainer ==
  (last.op = "setattr" /\ last.key \in mContainment /\ last.val \in Nodes) =>
    /\ mContainer[last.val] = last.obj
    /\ (last.old \in Nodes /\ last.old # last.val) => mContainer[last.old] = None

C1_Witness ==
  /\ last.op = "setattr" /\ last.key = "child"
  /\ last.old \in Nodes /\ last.val \in Nodes /\ last.old # last.val
  /\ attrs[last.obj]["child"] = last.val
  /\ mContainer[last.old] = None /\ mContainer[last.val] = last.obj

---------------------------------------------------------------------------
\* a holds n under a containment attribute, or inside a collection stored under one
Held(a, n) ==
  /\ a \in Nodes
  /\ \/ \E k \in PlainAttrs \cap mContainment : attrs[a][k] = n
     \/ \E k \in ListAttrs \cap mContainment :
          attrs[a][k] = ListId(a, k) /\ InSeq(elems[ListId(a, k)], n)
     \/ \E k \in DictAttrs \cap mContainment :
          attrs[a][k] = DictId(a) /\ \E key \in Keys : entries[DictId(a)][key] = n

(* C2: a Node whose container is non-null is currently held by that container,
   under a containment attribute or inside a containment collection of it; a Node
   that was overwritten or removed has no container. *)
C2_ContainerHeld == \A n \in Nodes : mContainer[n] # None => Held(mContainer[n], n)

\* the Nodes an add-shaped call inserted
Inserted(op) == ({op.val} \cup {op.seq[i] : i \in 1 .. Len(op.seq)}) \cap Nodes
AddShaped == {"append", "extend", "insert", "setitem", "setslice"}

(* C3: an add-shaped operation on the list bound to attribute f of Node A sets the
   container of each inserted Node to A when f is a containment attribute, and
   leaves it unchanged when f is not. *)
C3_AddShapedContainment ==
  [][(last'.op \in AddShaped /\ last'.err = "none") =>
       \A n \in Inserted(last') :
         IF AttrOf(last'.obj) \in mContainment
         THEN mContainer'[n] = Owner(last'.obj)
         ELSE mContainer'[n] = mContainer[n]]_vars

(* C4: on the map stored under a containment attribute of Node A, set,
   setDefault and update set the container of each inserted Node to A, and pop,
   delete and clear set the container of each removed Node to None. *)
C4_MapContainment ==
  /\ (last.op \in {"dictSet", "dictSetDefault", "dictUpdate"} /\ last.err = "none") =>
       \A n \in Nodes :
         ((last.op = "dictUpdate" /\ n \in Inserted(last))
            \/ (last.op # "dictUpdate" /\ entries[last.obj][last.idx] = n))
         => mContainer[n] = Owner(last.obj)
  /\ (last.op \in {"dictPop", "dictDelete"} /\ last.err = "none" /\ last.old \in Nodes
        /\ ~Held(Owner(last.obj), last.old))
       => mContainer[last.old] = None
  /\ last.op = "dictClear" => \A n \in Inserted(last) : mContainer[n] = None

---------------------------------------------------------------------------
\* the MObjects an object refers to through its attributes or holds as elements
Refs(o) ==
  (IF o \in Nodes THEN {attrs[o][k] : k \in AttrSet}
   ELSE IF o \in Lists THEN {elems[o][i] : i \in 1 .. Len(elems[o])}
   ELSE {entries[o][k] : k \in Keys}) \cap MObjects

RECURSIVE ReachFrom(_, _)
ReachFrom(seen, frontier) ==
  IF frontier = {} THEN seen
  ELSE LET next == (UNION {Refs(o) : o \in frontier}) \ (seen \cup frontier)
       IN  ReachFrom(seen \cup frontier, next)
\* the MObjects reachable from t through attributes and container elements
Reach(t) == IF t \in MObjects THEN ReachFrom({}, {t}) ELSE {}

\* the MObjects whose adapter list contains ad
Subscribed(ad) == {o \in MObjects : InSeq(mAdapters[o], ad)}

\* the last call ran the callback of ad for a notification of notifier o
Delivered(ad, o, ev) ==
  \E i \in 1 .. Len(log) :
    log[i].adapter = ad /\ log[i].n.notifier = o /\ log[i].n.eventType = ev

(* C5: after every completed operation performed while an AllContent adapter is
   attached to target T, the MObjects whose adapter list contains the adapter are
   exactly those reachable from T through attributes and container elements. *)
C5_SubscribedIsReachable ==
  (target["all"] # None /\ last.err = "none") =>
    Subscribed("all") = Reach(target["all"])

(* C7: attaching an AllContent adapter to a Node T whose tree was built before
   subscribes the adapter to every MObject reachable from T, the elements of the
   lists in the tree included. *)
C7_AttachSubscribesTree ==
  (last.op = "mAddAdapter" /\ last.key = "all" /\ last.err = "none"
     /\ target["all"] = last.obj) =>
    Reach(last.obj) \subseteq Subscribed("all")

(* C8: when an AllContent adapter receives the SET notification of A.attr = C
   replacing a Node B (B # C), it is afterwards in the adapter list of C and of
   every Node reachable from C, and not in the adapter list of B unless B is still
   reachable from the target; likewise for a Node removed from a list. *)
C8_Resubscription ==
  /\ (last.op = "setattr" /\ Delivered("all", last.obj, "SET")
        /\ last.val \in Nodes /\ last.old \in Nodes /\ last.val # last.old) =>
       /\ Reach(last.val) \subseteq Subscribed("all")
       /\ last.old \in Reach(target["all"]) \/ last.old \notin Subscribed("all")
  /\ (last.op \in {"pop", "remove", "delitem"} /\ Delivered("all", last.obj, "REMOVE")
        /\ last.old \in Nodes) =>
       last.old \in Reach(target["all"]) \/ last.old \notin Subscribed("all")

\* the notifications the last call handed to ad's callback, by event type
Callbacks(ad, ev) ==
  {i \in 1 .. Len(log) : log[i].adapter = ad /\ log[i].n.eventType = ev}

(* C6: in the scenario (Root holds Mid, Mid holds the containment list, the
   AllContent adapter attached to Root afterwards, the Direct adapter only on Root)
   appending Leaf delivers one ADD notification to the AllContent callback and
   subscribes Leaf, every later attribute set on Leaf delivers a SET notification
   whose feature is the type name + "." + the attribute, and the Direct adapter
   receives neither. *)
C6_ScenarioDelivery ==
  /\ (last.op = "append" /\ last.obj = MidItems /\ last.val = Leaf) =>
       /\ Cardinality(Callbacks("all", "ADD")) = 1
       /\ Leaf \in Subscribed("all")
       /\ \A i \in 1 .. Len(log) : log[i].adapter # "direct"
  /\ (last.op = "setattr" /\ last.obj = Leaf /\ InSeq(elems[MidItems], Leaf)) =>
       /\ \E i \in Callbacks("all", "SET") :
            log[i].n.notifier = Leaf /\ log[i].n.feature = <<TypeName, ".", last.key>>
       /\ \A i \in 1 .. Len(log) : log[i].adapter # "direct"

(* C9: for every adapter, Direct or AllContent, and every notification passed to
   its notify, the callback is invoked with it if and only if its event type is in
   the adapter's accepted set. *)
C9_Filtered ==
  \A i \in 1 .. Len(calls) :
    (calls[i].eventType \in eventTypes[calls[i].adapter])
      <=> Callbacks(calls[i].adapter, calls[i].eventType) # {}

\* the call changed what the objects hold
Mutated == attrs' # attrs \/ elems' # elems \/ entries' # entries

(* C10: a mutation of an MObject invokes adapter.notify if and only if the
   object's own adapter list is non-empty and its delivery flag is true, and an
   attribute set stores its value either way. *)
C10_NotifyIffRequired ==
  [][/\ (Mutated /\ last'.obj \in MObjects) =>
          (calls' # <<>> <=> (Len(mAdapters[last'.obj]) > 0 /\ mDeliver[last'.obj]))
     /\ last'.op = "setattr" => attrs'[last'.obj][last'.key] = last'.val]_vars

\* the adapters whose notify the call invoked, in order
Notified(cs) == [i \in 1 .. Len(cs) |-> cs[i].adapter]

(* C11: dispatch goes over the adapter list as it was when notify began: whatever
   the callbacks add to or remove from the notifier's adapter list meanwhile, a
   call that completes has invoked every adapter registered at its start exactly
   once, in registration order, and no adapter added during the dispatch. *)
C11_SnapshotDispatch ==
  [][(last'.op = "setattr" /\ last'.err = "none" /\ mDeliver[last'.obj]) =>
       Notified(calls') = mAdapters[last'.obj]]_vars

\* no adapter occurs twice in the list
NoDuplicates(s) == \A i \in 1 .. Len(s), j \in 1 .. Len(s) : s[i] = s[j] => i = j

(* C12: mAddAdapter of an adapter already registered on the object changes
   nothing, mAddAdapter of one that is not appends it once, mRemoveAdapter of an
   adapter that is not registered leaves every adapter list and the adapter's
   target unchanged, and no adapter list ever holds an adapter twice. *)
C12_RegistryIdempotent ==
  [][/\ (last'.op = "mAddAdapter" /\ last'.old # None) =>
          mAdapters' = mAdapters /\ target' = target
     /\ (last'.op = "mAddAdapter" /\ last'.old = None) =>
          mAdapters'[last'.obj] = Append(mAdapters[last'.obj], last'.key)
     /\ (last'.op = "mRemoveAdapter" /\ last'.old = None) =>
          mAdapters' = mAdapters /\ target' = target
     /\ \A o \in MObjects : NoDuplicates(mAdapters'[o])]_vars

\* an adapter registered on an object holding both adapters has just been added again
C12_Witness ==
  /\ last.op = "mAddAdapter" /\ last.old = last.obj /\ last.err = "none"
  /\ Len(mAdapters[last.obj]) = 2 /\ NoDuplicates(mAdapters[last.obj])

(* C13: a Direct adapter whose target is N is in N's adapter list, and it is in
   the adapter list of at most one object: assigning its target moves the
   registration from the old target to the new one. *)
C13_DirectTargetRegistered ==
  /\ target["direct"] # None => InSeq(mAdapters[target["direct"]], "direct")
  /\ Cardinality(Subscribed("direct")) <= 1

\* the event type the documentation of MList gives for each operation
EventOf(op) ==
  CASE op \in {"append", "insert"} -> "ADD"
    [] op = "extend" -> "ADD_MANY"
    [] op \in {"pop", "remove", "delitem"} -> "REMOVE"
    [] op = "delslice" -> "REMOVE_MANY"
    [] op = "setitem" -> "SET"
    [] op = "setslice" -> "SET_MANY"
    [] op \in {"reverse", "sort"} -> "MOVE_MANY"
ListOpNames == {"append", "insert", "extend", "pop", "remove", "delitem", "delslice",
                "setitem", "setslice", "reverse", "sort"}

\* the last call was a list operation given an index, a value or a range that the
\* list has (a range is always one the list has)
ValidListCall == last.op \in ListOpNames /\ (last.err = "none" \/ last.op = "delslice")

(* C14: every list operation called with a valid index, value or range on a list
   with an adapter and delivery enabled emits exactly one Notification, whose
   notifier is the list and whose event type is the documented one; for append(v)
   its newValue is v and its position the index at which v now is. *)
C14_ListEventTable ==
  (ValidListCall /\ mAdapters[last.obj] # <<>> /\ mDeliver[last.obj]) =>
    /\ Len(log) = 1
    /\ log[1].n.notifier = last.obj
    /\ log[1].n.eventType = EventOf(last.op)
    /\ last.op = "append" =>
         /\ log[1].n.newValue.v = last.val
         /\ log[1].n.position = <<Len(elems[last.obj]) - 1>>
         /\ elems[last.obj][Len(elems[last.obj])] = last.val

\* the keys and the values of a sequence of (key, value) pairs
PairKeys(p) == [i \in 1 .. Len(p) |-> p[i][1]]
PairValues(p) == [i \in 1 .. Len(p) |-> p[i][2]]

(* C15: update(pairs) on a map with an adapter emits exactly one SET_MANY
   Notification whose newValue is the pairs written, whose position is their
   keys, and whose oldValue is the (key, previous value) pairs of exactly the
   written keys the map already held; a Node the update displaces from the map
   has its container cleared. *)
C15_UpdateNotification ==
  [][(last'.op = "dictUpdate" /\ mAdapters[last'.obj] # <<>> /\ mDeliver[last'.obj]) =>
       /\ Len(log') = 1
       /\ LET n == log'[1].n
              m == last'.obj
              written == {n.newValue.pairs[i][1] : i \in 1 .. Len(n.newValue.pairs)}
          IN  /\ n.notifier = m /\ n.eventType = "SET_MANY"
              /\ PairValues(n.newValue.pairs) = last'.seq
              /\ \A i \in 1 .. Len(n.newValue.pairs) :
                   entries'[m][n.newValue.pairs[i][1]] = n.newValue.pairs[i][2]
              /\ n.position = PairKeys(n.newValue.pairs)
              /\ n.oldValue.pairs =
                   items([k \in Keys |-> IF k \in written THEN entries[m][k] ELSE Absent])
              /\ \A k \in written :
                   (entries[m][k] \in Nodes /\ \A j \in Keys : entries'[m][j] # entries[m][k])
                     => mContainer'[entries[m][k]] = None]_vars

(* C16: clear() on a map with an adapter completes without error, leaves the map
   empty and emits exactly one REMOVE_MANY Notification whose oldValue is the
   entries and whose position is the keys the map held before the call. *)
C16_ClearNotification ==
  (last.op = "dictClear" /\ mAdapters[last.obj] # <<>> /\ mDeliver[last.obj]) =>
    /\ last.err = "none"
    /\ entries[last.obj] = EmptyDict
    /\ Len(log) = 1
    /\ log[1].n.notifier = last.obj /\ log[1].n.eventType = "REMOVE_MANY"
    /\ PairValues(log[1].n.oldValue.pairs) = last.seq
    /\ log[1].n.position = PairKeys(log[1].n.oldValue.pairs)

\* the operations C17 is about
FailingOps == {"pop", "setitem", "delitem", "remove", "dictDelete"}

(* C17: list pop, setItem and deleteItem at an index the list does not have, list
   remove of a value the list does not hold and map delete of a key the map does
   not hold each raise, and a call of these that raises leaves the contents of
   every collection and every container unchanged and emits no notification. *)
C17_FailingCallNoEffect ==
  [][/\ (last'.op \in {"pop", "setitem", "delitem"} /\ last'.idx >= Len(elems[last'.obj]))
          => last'.err # "none"
     /\ (last'.op = "remove" /\ ~InSeq(elems[last'.obj], last'.val)) => last'.err # "none"
     /\ (last'.op = "dictDelete" /\ entries[last'.obj][last'.idx] = Absent)
          => last'.err # "none"
     /\ (last'.op \in FailingOps /\ last'.err # "none") =>
          /\ elems' = elems /\ entries' = entries /\ mContainer' = mContainer
          /\ log' = <<>> /\ calls' = <<>>]_vars

\* a Node that has a container is removed from an observed list that holds other
\* values but not this one
C17_Witness ==
  /\ last.op = "remove" /\ last.err = "ValueError"
  /\ last.val \in Nodes /\ mContainer[last.val] # None
  /\ elems[last.obj] # <<>> /\ mAdapters[last.obj] # <<>>

(* C18: a callback that raises ends the dispatch and the attribute set that
   caused it with that error, and the set is not undone: the value stays stored,
   its container stays the object, and the replaced Node stays without container. *)
C18_CallbackErrorKeepsMutation ==
  /\ \A i \in 1 .. Len(log) :
       callbackDoes[log[i].adapter] = "raise" =>
         last.err = "CallbackError" /\ i = Len(log) /\ calls[Len(calls)].adapter = log[i].adapter
  /\ (last.op = "setattr" /\ last.err = "CallbackError") =>
       /\ attrs[last.obj][last.key] = last.val
       /\ (last.val \in Nodes /\ last.key \in mContainment) =>
            mContainer[last.val] = last.obj
       /\ (last.old \in Nodes /\ last.old # last.val /\ last.key \in mContainment) =>
            mContainer[last.old] = None

\* a set replacing one contained Node by another has ended in the callback's error
C18_Witness ==
  /\ last.op = "setattr" /\ last.err = "CallbackError"
  /\ last.old \in Nodes /\ last.val \in Nodes /\ last.old # last.val
  /\ attrs[last.obj]["child"] = last.val /\ mContainer[last.val] = last.obj

\* the call detaches the AllContent adapter from the target it is registered on:
\* adapter.target = None, or target.mRemoveAdapter(adapter)
Detaches ==
  /\ target["all"] # None /\ InSeq(mAdapters[target["all"]], "all")
  /\ \/ last'.op = "setTarget" /\ last'.key = "all" /\ last'.obj = None
     \/ last'.op = "mRemoveAdapter" /\ last'.key = "all" /\ last'.obj = target["all"]

(* C19: detaching an attached AllContent adapter from a tree whose Nodes hold
   lists terminates, and afterwards the adapter's target is None and the adapter
   is in no object's adapter list. *)
C19_DetachComplete ==
  [][Detaches =>
       /\ last'.err = "none"
       /\ target'["all"] = None
       /\ \A o \in MObjects : ~InSeq(mAdapters'[o], "all")]_vars

(* C20: insert(i, v) with 0 <= i <= len puts v at index i, the elements from
   index i on moving up by one, and emits one ADD Notification with newValue v
   and position i. *)
C20_InsertAtIndex ==
  [][last'.op = "insert" =>
       LET l == last'.obj
           i == last'.idx
       IN  /\ elems'[l] = SubSeq(elems[l], 1, i) \o <<last'.val>>
                            \o SubSeq(elems[l], i + 1, Len(elems[l]))
           /\ (mAdapters[l] # <<>> /\ mDeliver[l]) =>
                /\ Len(log') = 1
                /\ log'[1].n.eventType = "ADD"
                /\ log'[1].n.newValue.v = last'.val
                /\ log'[1].n.position = <<i>>]_vars

\* the adapters whose callbacks the last call entered while the callback of ctx
\* was running (ctx = Outer: for the notification of the call itself), in order
Entered(ctx) ==
  LET Picked(e) == e.kind = "call" /\ e.ctx = ctx
      s == SelectSeq(trace, Picked)
  IN  [i \in 1 .. Len(s) |-> s[i].adapter]
\* the callback of ad, entered while the callback of ctx was running, returned
Returned(ad, ctx) ==
  \E i \in 1 .. Len(trace) :
    trace[i].kind = "return" /\ trace[i].adapter = ad /\ trace[i].ctx = ctx
IsPrefix(s, t) == Len(s) <= Len(t) /\ \A i \in 1 .. Len(s) : s[i] = t[i]
\* the last call left the adapter list of o as it was
ListUntouched(o) ==
  \A i \in 1 .. Len(trace) : trace[i].kind \in {"add", "remove"} => trace[i].obj # o

(* C21: for the notification of an attribute set on a Node whose adapter list
   the dispatch does not change, the callbacks run in registration order (all of
   them unless one raises); an AllContent adapter changes adapter lists for a
   notification only after its own callback for that notification has returned;
   and everything a notification triggered inside the callback of adapter a
   causes happens right after that callback is entered, before any later adapter
   is invoked for the outer notification, and reaches the callbacks of all the
   recipients of the nested notification, in order, before a's callback returns. *)
C21_DispatchOrder ==
  last.op = "setattr" =>
    /\ ListUntouched(last.obj) =>
         /\ IsPrefix(Entered(Outer), mAdapters[last.obj])
         /\ last.err = "none" => Entered(Outer) = mAdapters[last.obj]
         /\ \A a \in Adapters :
              /\ IsPrefix(Entered(a), mAdapters[last.obj])
              /\ (Returned(a, Outer) /\ callbackDoes[a] = "mutate"
                    /\ last.key = "child")
                   => Entered(a) = mAdapters[last.obj]
    /\ \A j \in 1 .. Len(trace) :
         /\ trace[j].kind \in {"add", "remove"} =>
              \E i \in 1 .. j - 1 :
                trace[i] = Event("return", trace[j].adapter, last.obj, trace[j].ctx)
         /\ trace[j].ctx # Outer =>
              \E i \in 1 .. j - 1 :
                /\ trace[i] = Event("call", trace[j].ctx, last.obj, Outer)
                /\ \A m \in i + 1 .. j : trace[m].ctx = trace[j].ctx

\* on a Node with both adapters the callback of the first one has changed the
\* Node, the nested notification has reached both callbacks, and the AllContent
\* adapter has subscribed to the new value
C21_Witness ==
  /\ last.op = "setattr" /\ last.key = "child" /\ last.err = "none"
  /\ Len(mAdapters[last.obj]) = 2 /\ ListUntouched(last.obj)
  /\ callbackDoes[mAdapters[last.obj][1]] = "mutate"
  /\ Entered(mAdapters[last.obj][1]) = mAdapters[last.obj]
  /\ Entered(Outer) = mAdapters[last.obj]
  /\ \E j \in 1 .. Len(trace) : trace[j].kind = "add" /\ trace[j].adapter = "all"

===========================================================================
